---- MODULE Spec2Model ----
(***************************************************************************)
(* SundaySignals: the token-gated trigger endpoints (Next.js route         *)
(* handlers) and the relational schema (supabase/schema.sql).              *)
(*                                                                         *)
(* Five specifications share the variables:                                *)
(*   SpecHttp     the three POST handlers behind requireTriggerToken       *)
(*   SpecSchedule the schema script (run statement by statement, re-run)   *)
(*                and DML on public.schedule                               *)
(*   SpecPlayers  DML on players / news / rosters / waiver_suggestions     *)
(*   SpecRuns     DML on model_runs                                        *)
(*   SpecOdds     DML on odds and reads of the odds_implied view           *)
(***************************************************************************)
EXTENDS Integers, Sequences, FiniteSets, TLC

VARIABLES
  env,        \* process.env.TRIGGER_TOKEN
  req,        \* the request the last handler call served
  resp,       \* the response (or the exception) that call produced
  steps,      \* the handler statements that call executed, in order
  bodyUsed,   \* Request.bodyUsed after that call
  catalog,    \* the tables the database holds, with their constraints
  scriptPc,   \* statements of schema.sql executed in the current run
  scriptRuns, \* completed runs of schema.sql
  schedule,   \* rows of public.schedule
  players,    \* rows of public.players (by player_id)
  news,       \* rows of public.news
  rosters,    \* rows of public.rosters
  waiver_suggestions, \* rows of public.waiver_suggestions
  model_runs, \* rows of public.model_runs
  odds,       \* rows of public.odds
  lastOp      \* the last SQL statement executed and its outcome

vars == <<env, req, resp, steps, bodyUsed, catalog, scriptPc, scriptRuns,
          schedule, players, news, rosters, waiver_suggestions, model_runs,
          odds, lastOp>>

httpVars == <<env, req, resp, steps, bodyUsed>>
dbVars == <<catalog, scriptPc, scriptRuns, schedule, players, news, rosters,
            waiver_suggestions, model_runs, odds, lastOp>>

(***************************************************************************)
(* Bounds of the model.                                                    *)
(***************************************************************************)
\* integer literals 0..MaxSmallInt are offered as small season/week values
\* and as offsets above 2025 and above 2^53
MaxSmallInt == 3

(***************************************************************************)
(* JavaScript values and JSON texts.                                       *)
(*                                                                         *)
(* A JSON text is kept as its syntax tree (a "doc"); a JavaScript value is *)
(* what JSON.parse makes of it.  An integer is a sign and a magnitude      *)
(* hi * 2^30 + lo (0 <= lo < 2^30), so that magnitudes around 2^53, where  *)
(* an IEEE-754 double stops holding every integer, can be written.         *)
(***************************************************************************)
LoBase == 2^30

Undefined == [t |-> "undefined"]
Null == [t |-> "null"]
Bool(b) == [t |-> "bool", b |-> b]
Str(s) == [t |-> "str", s |-> s]
Num(neg, hi, lo) == [t |-> "num", neg |-> neg, hi |-> hi, lo |-> lo]
Small(n) == IF n < 0 THEN Num(TRUE, 0, -n) ELSE Num(FALSE, 0, n)
Arr(elems) == [t |-> "arr", elems |-> elems]
Obj(members) == [t |-> "obj", members |-> members]
Member(k, v) == [k |-> k, v |-> v]

\* 2^53 + n, the first magnitudes a double cannot all hold
Big(neg, n) == Num(neg, 2^23, n)

\* The double nearest to an integer literal (round half to even), for
\* magnitudes below 2^54: exact below 2^53, a multiple of 2 from 2^53 on.
ToDouble(lit) ==
  IF lit.hi < 2^23 \/ lit.lo % 2 = 0 THEN lit
  ELSE IF lit.lo % 4 = 1 THEN [lit EXCEPT !.lo = lit.lo - 1]
  ELSE IF lit.lo + 1 = LoBase THEN [lit EXCEPT !.hi = lit.hi + 1, !.lo = 0]
  ELSE [lit EXCEPT !.lo = lit.lo + 1]

\* Number::toString of an integral double below 1e21: its decimal digits;
\* -0 prints as "0".
NumberToString(d) ==
  IF d.hi = 0 /\ d.lo = 0 THEN [d EXCEPT !.neg = FALSE] ELSE d

\* the integer a literal denotes, with -0 = 0
MathValue(lit) ==
  IF lit.t = "num" /\ lit.hi = 0 /\ lit.lo = 0 THEN [lit EXCEPT !.neg = FALSE]
  ELSE lit

RECURSIVE LastIndexOf(_, _, _)
\* the last member of members[1..i] named k, 0 when none
LastIndexOf(members, k, i) ==
  IF i = 0 THEN 0
  ELSE IF members[i].k = k THEN i
  ELSE LastIndexOf(members, k, i - 1)

\* JSON.parse of a scalar doc
ParseScalar(doc) == IF doc.t = "num" THEN ToDouble(doc) ELSE doc

\* JSON.parse: numbers become doubles; of members sharing a name the last
\* one's value is kept.
JSONparse(doc) ==
  CASE doc.t = "arr" ->
         Arr([i \in 1..Len(doc.elems) |-> ParseScalar(doc.elems[i])])
    [] doc.t = "obj" ->
         LET ms == doc.members
             keep == {i \in 1..Len(ms) : LastIndexOf(ms, ms[i].k, Len(ms)) = i}
             first(k) == CHOOSE i \in 1..Len(ms) :
                           /\ ms[i].k = k
                           /\ \A j \in 1..(i - 1) : ms[j].k # k
             Keys == SelectSeq([i \in 1..Len(ms) |-> i],
                               LAMBDA i : first(ms[i].k) = i)
         IN Obj([n \in 1..Len(Keys) |->
                   LET k == ms[Keys[n]].k
                       last == CHOOSE i \in keep : ms[i].k = k
                   IN Member(k, ParseScalar(ms[last].v))])
    [] OTHER -> ParseScalar(doc)

\* JSON.stringify of a scalar value (undefined has no JSON text)
StringifyScalar(v) == IF v.t = "num" THEN NumberToString(v) ELSE v

\* JSON.stringify: a property whose value is undefined is left out; an
\* array element that is undefined is written null.
JSONstringify(v) ==
  CASE v.t = "arr" ->
         Arr([i \in 1..Len(v.elems) |->
                IF v.elems[i].t = "undefined" THEN Null
                ELSE StringifyScalar(v.elems[i])])
    [] v.t = "obj" ->
         LET kept == SelectSeq(v.members, LAMBDA m : m.v.t # "undefined")
         IN Obj([i \in 1..Len(kept) |->
                   Member(kept[i].k, StringifyScalar(kept[i].v))])
    [] OTHER -> StringifyScalar(v)

\* v.k for an object coercible value v: own property k of an object; the
\* wrappers of numbers, strings and booleans and arrays have no such
\* property (k is "season" or "week").
GetProp(v, k) ==
  IF v.t = "obj" /\ LastIndexOf(v.members, k, Len(v.members)) # 0
  THEN v.members[LastIndexOf(v.members, k, Len(v.members))].v
  ELSE Undefined

(***************************************************************************)
(* src/lib/utils: requireTriggerToken                                      *)
(***************************************************************************)
\* Headers.get(name): the value of the header, null when the request has
\* none.  headers is a set of [name, value] pairs, one per name at most.
HeadersGet(headers, name) ==
  IF \E h \in headers : h.name = name
  THEN Str((CHOOSE h \in headers : h.name = name).value)
  ELSE Null

\* !v for the values a header or an environment variable can take
Not(v) == v.t \in {"null", "undefined"} \/ (v.t = "str" /\ v.s = "")

Response(status, body) == [kind |-> "response", status |-> status, body |-> body]
Throw(error) == [kind |-> "throw", error |-> error]

requireTriggerToken_NoEmptyCheck(headers) ==
  LET token == HeadersGet(headers, "x-trigger-token")
  IN IF token # env THEN Response(401, Str("Unauthorized")) ELSE Null

requireTriggerToken_AllowAll(headers) == Null

requireTriggerToken(headers) ==
  LET token == HeadersGet(headers, "x-trigger-token")
  IN IF Not(token) \/ token # env
     THEN Response(401, Str("Unauthorized"))
     ELSE Null

(***************************************************************************)
(* The route handlers.  A call's outcome is the response it returns (or    *)
(* the exception it throws), the statements it executed and whether it     *)
(* consumed the request body.                                              *)
(***************************************************************************)
Outcome(r, s, used) == [resp |-> r, steps |-> s, bodyUsed |-> used]

\* req.json(): rejects on an empty or unparseable body, else resolves to
\* JSON.parse of the text
ReqJson(body) ==
  IF body.kind = "json" THEN [ok |-> TRUE, v |-> JSONparse(body.doc)]
  ELSE [ok |-> FALSE, v |-> Undefined]

CatchJson_NoCatch(p) == p.v

\* p.catch(() => ({ season: undefined, week: undefined }))
CatchJson(p) ==
  IF p.ok THEN p.v
  ELSE Obj(<<Member("season", Undefined), Member("week", Undefined)>>)

\* const { season, week } = v  throws a TypeError for null and undefined
Destructurable(v) == v.t \notin {"null", "undefined"}

\* app/api/trigger-weekly/route.ts
TriggerWeeklyPOST(r) ==
  LET unauthorized == requireTriggerToken(r.headers)
  IN IF unauthorized # Null
     THEN Outcome(unauthorized, <<"requireTriggerToken">>, FALSE)
     ELSE LET v == CatchJson(ReqJson(r.body))
          IN IF ~Destructurable(v)
             THEN Outcome(Throw("TypeError"),
                          <<"requireTriggerToken", "req.json">>, TRUE)
             ELSE LET season == GetProp(v, "season")
                      week == GetProp(v, "week")
                  IN Outcome(
                       Response(200, JSONstringify(Obj(
                         <<Member("ok", Bool(TRUE)), Member("season", season),
                           Member("week", week)>>))),
                       <<"requireTriggerToken", "req.json", "respond">>, TRUE)

WaiversScanPOST_SwapsFields(r) ==
  LET unauthorized == requireTriggerToken(r.headers)
  IN IF unauthorized # Null
     THEN Outcome(unauthorized, <<"requireTriggerToken">>, FALSE)
     ELSE LET v == CatchJson(ReqJson(r.body))
          IN IF ~Destructurable(v)
             THEN Outcome(Throw("TypeError"),
                          <<"requireTriggerToken", "req.json">>, TRUE)
             ELSE LET season == GetProp(v, "week")
                      week == GetProp(v, "season")
                  IN Outcome(
                       Response(200, JSONstringify(Obj(
                         <<Member("ok", Bool(TRUE)), Member("season", season),
                           Member("week", week)>>))),
                       <<"requireTriggerToken", "req.json", "respond">>, TRUE)

\* app/api/waivers/scan/route.ts
WaiversScanPOST(r) ==
  LET unauthorized == requireTriggerToken(r.headers)
  IN IF unauthorized # Null
     THEN Outcome(unauthorized, <<"requireTriggerToken">>, FALSE)
     ELSE LET v == CatchJson(ReqJson(r.body))
          IN IF ~Destructurable(v)
             THEN Outcome(Throw("TypeError"),
                          <<"requireTriggerToken", "req.json">>, TRUE)
             ELSE LET season == GetProp(v, "season")
                      week == GetProp(v, "week")
                  IN Outcome(
                       Response(200, JSONstringify(Obj(
                         <<Member("ok", Bool(TRUE)), Member("season", season),
                           Member("week", week)>>))),
                       <<"requireTriggerToken", "req.json", "respond">>, TRUE)

RefreshWeekPOST_ReadsBody(r) ==
  LET unauthorized == requireTriggerToken(r.headers)
  IN IF unauthorized # Null
     THEN Outcome(unauthorized, <<"requireTriggerToken">>, FALSE)
     ELSE LET v == CatchJson(ReqJson(r.body))
          IN Outcome(Response(200, JSONstringify(Obj(
                       <<Member("ok", Bool(TRUE)),
                         Member("season", GetProp(v, "season"))>>))),
                     <<"requireTriggerToken", "req.json", "respond">>, TRUE)

\* app/api/refresh-week/route.ts
RefreshWeekPOST(r) ==
  LET unauthorized == requireTriggerToken(r.headers)
  IN IF unauthorized # Null
     THEN Outcome(unauthorized, <<"requireTriggerToken">>, FALSE)
     ELSE Outcome(Response(200, JSONstringify(Obj(<<Member("ok", Bool(TRUE))>>))),
                  <<"requireTriggerToken", "respond">>, FALSE)

(***************************************************************************)
(* Requests offered to the handlers.                                       *)
(***************************************************************************)
Routes == {"trigger-weekly", "waivers/scan", "refresh-week"}

\* process.env.TRIGGER_TOKEN: unset, empty, or a secret
EnvValues == {Undefined, Str(""), Str("s3cret")}

HeaderSets ==
  {{}, {[name |-> "content-type", value |-> "application/json"]}}
  \cup {{[name |-> "x-trigger-token", value |-> v]} :
          v \in {"", "s3cret", "wrong"}}

SmallInts == 0..MaxSmallInt

\* integer literals a body may carry as season: small ones, years, -0,
\* and magnitudes at and above 2^53
SeasonLits ==
  {Small(n) : n \in SmallInts} \cup {Small(2025 + n) : n \in SmallInts}
  \cup {Small(-1), Num(TRUE, 0, 0)}
  \cup {Big(FALSE, n) : n \in SmallInts} \cup {Big(TRUE, 1)}
  \cup {Num(FALSE, 2^23, LoBase - 1)}

WeekLits == {Small(n) : n \in SmallInts} \cup {Small(23), Big(FALSE, 1)}

ObjectDocs ==
  {Obj(<<>>)}
  \cup {Obj(<<Member("season", s), Member("week", Small(3))>>) : s \in SeasonLits}
  \cup {Obj(<<Member("week", w), Member("season", Small(2025))>>) : w \in WeekLits}
  \cup {Obj(<<Member("season", s)>>) : s \in SeasonLits}
  \cup {Obj(<<Member("season", Small(2024)), Member("week", Small(3)),
              Member("season", Small(2025))>>),
        Obj(<<Member("season", Str("2025")), Member("week", Null)>>),
        Obj(<<Member("season", Small(2025)), Member("week", Small(3)),
              Member("force", Bool(TRUE))>>)}

NonObjectDocs ==
  {Null, Bool(TRUE), Bool(FALSE), Small(7), Str("season"), Arr(<<>>),
   Arr(<<Small(2025), Small(3)>>)}

Bodies ==
  {[kind |-> "absent"], [kind |-> "malformed"]}
  \cup {[kind |-> "json", doc |-> d] : d \in ObjectDocs \cup NonObjectDocs}

Requests == [route : Routes, headers : HeaderSets, body : Bodies]

NoRequest == [route |-> "none"]
NoResponse == [kind |-> "none"]

\* the process starts with its environment set and no request served; the
\* handlers touch no table
InitHttp ==
  /\ env \in EnvValues
  /\ req = NoRequest
  /\ resp = NoResponse
  /\ steps = <<>>
  /\ bodyUsed = FALSE
  /\ catalog = <<>>
  /\ scriptPc = 0
  /\ scriptRuns = 0
  /\ schedule = {}
  /\ players = {}
  /\ news = {}
  /\ rosters = {}
  /\ waiver_suggestions = {}
  /\ model_runs = {}
  /\ odds = {}
  /\ lastOp = [op |-> "none", ok |-> TRUE]

Serve(r, out) ==
  /\ req' = r
  /\ resp' = out.resp
  /\ steps' = out.steps
  /\ bodyUsed' = out.bodyUsed
  /\ UNCHANGED env

\* POST /api/trigger-weekly
TriggerWeekly ==
  \E r \in Requests :
    /\ r.route = "trigger-weekly"
    /\ Serve(r, TriggerWeeklyPOST(r))
    /\ UNCHANGED dbVars

\* POST /api/waivers/scan
WaiversScan ==
  \E r \in Requests :
    /\ r.route = "waivers/scan"
    /\ Serve(r, WaiversScanPOST(r))
    /\ UNCHANGED dbVars

\* POST /api/refresh-week
RefreshWeek ==
  \E r \in Requests :
    /\ r.route = "refresh-week"
    /\ Serve(r, RefreshWeekPOST(r))
    /\ UNCHANGED dbVars

NextHttp == TriggerWeekly \/ WaiversScan \/ RefreshWeek

(***************************************************************************)
(* supabase/schema.sql: the tables the claims read.  A table definition is *)
(* its primary key, its check constraints and its foreign keys; columns    *)
(* are "not null" unless listed in nullable.                               *)
(***************************************************************************)
WeekLo == 1
WeekHi == 23

Between(col, lo, hi) == [col |-> col, lo |-> lo, hi |-> hi]
References(col, ref, onDelete) == [col |-> col, ref |-> ref, onDelete |-> onDelete]
Table(pk, nullable, checks, fks) ==
  [exists |-> TRUE, pk |-> pk, nullable |-> nullable, checks |-> checks, fks |-> fks]
NoTable == [exists |-> FALSE, pk |-> <<>>, nullable |-> {}, checks |-> {}, fks |-> {}]

\* lines 11-16
PlayersPublic == Table(<<"player_id">>, {"team"}, {}, {})

\* lines 18-25
SchedulePublic ==
  Table(<<"season", "week", "team">>, {}, {Between("week", WeekLo, WeekHi)}, {})

\* lines 40-51
OddsPublic ==
  Table(<<"season", "week", "game_id", "team">>, {"spread", "moneyline", "total"},
        {Between("week", WeekLo, WeekHi)}, {})

NewsPublic_NoCascade ==
  Table(<<"player_id", "ts">>, {}, {},
        {References("player_id", "players", "no action")})

\* lines 56-61
NewsPublic ==
  Table(<<"player_id", "ts">>, {}, {},
        {References("player_id", "players", "cascade")})

\* lines 91-99
RostersPublic ==
  Table(<<"league_id", "user_id", "player_id", "season", "week">>, {},
        {Between("week", WeekLo, WeekHi)},
        {References("player_id", "players", "cascade")})

\* lines 114-123: status is free text defaulting to 'started'; no check
\* relates status and ended_at
ModelRunsPublic ==
  Table(<<"run_id">>, {"season", "week", "metrics", "ended_at"}, {}, {})

\* lines 139-148
WaiverSuggestionsPublic ==
  Table(<<"league_id", "season", "week", "player_id">>, {"reason"},
        {Between("week", WeekLo, WeekHi)},
        {References("player_id", "players", "cascade")})

\* lines 172-177
PlayersUnqualified == Table(<<"player_id">>, {"team"}, {}, {})

\* lines 179-186: no check on week
ScheduleUnqualified == Table(<<"season", "week", "team">>, {}, {}, {})

\* lines 197-208
OddsUnqualified ==
  Table(<<"season", "week", "game_id", "team">>, {"spread", "moneyline", "total"},
        {}, {})

\* lines 210-215
NewsUnqualified ==
  Table(<<"player_id", "ts">>, {}, {},
        {References("player_id", "players", "cascade")})

\* lines 235-243
RostersUnqualified ==
  Table(<<"league_id", "user_id", "player_id", "season", "week">>, {}, {},
        {References("player_id", "players", "cascade")})

\* lines 253-262
ModelRunsUnqualified ==
  Table(<<"run_id">>, {"season", "week", "metrics", "ended_at"}, {}, {})

\* lines 273-282
WaiverSuggestionsUnqualified ==
  Table(<<"league_id", "season", "week", "player_id">>, {"reason"}, {},
        {References("player_id", "players", "cascade")})

TableNames ==
  {"players", "schedule", "odds", "news", "rosters", "model_runs",
   "waiver_suggestions"}

CreateTableIfNotExists(schema, name, def) ==
  [op |-> "create table", ifNotExists |-> TRUE, schema |-> schema,
   name |-> name, def |-> def]

\* the script's statements on those tables, in the script's order
Script ==
  << CreateTableIfNotExists("public", "players", PlayersPublic),
     CreateTableIfNotExists("public", "schedule", SchedulePublic),
     CreateTableIfNotExists("public", "odds", OddsPublic),
     CreateTableIfNotExists("public", "news", NewsPublic),
     CreateTableIfNotExists("public", "rosters", RostersPublic),
     CreateTableIfNotExists("public", "model_runs", ModelRunsPublic),
     CreateTableIfNotExists("public", "waiver_suggestions", WaiverSuggestionsPublic),
     CreateTableIfNotExists("", "players", PlayersUnqualified),
     CreateTableIfNotExists("", "schedule", ScheduleUnqualified),
     CreateTableIfNotExists("", "odds", OddsUnqualified),
     CreateTableIfNotExists("", "news", NewsUnqualified),
     CreateTableIfNotExists("", "rosters", RostersUnqualified),
     CreateTableIfNotExists("", "model_runs", ModelRunsUnqualified),
     CreateTableIfNotExists("", "waiver_suggestions", WaiverSuggestionsUnqualified) >>

\* An unqualified name is created in, and looked up in, the first schema of
\* the search path, which is public.
Resolve(schema, name) == name

Ddl(ok, cat) == [ok |-> ok, catalog |-> cat]

ExecCreateTable_Replace(cat, st) ==
  Ddl(TRUE, [cat EXCEPT ![Resolve(st.schema, st.name)] = st.def])

\* create table [if not exists]: an existing relation of that name is left
\* as it is (with a notice) under "if not exists" and is an error without;
\* a foreign key needs its referenced table.
ExecCreateTable(cat, st) ==
  LET name == Resolve(st.schema, st.name)
  IN IF cat[name].exists
     THEN Ddl(st.ifNotExists, cat)
     ELSE IF \E fk \in st.def.fks : ~cat[fk.ref].exists
     THEN Ddl(FALSE, cat)
     ELSE Ddl(TRUE, [cat EXCEPT ![name] = st.def])

RECURSIVE RunScript(_, _)
\* the catalog after the statements from position i on
RunScript(cat, i) ==
  IF i > Len(Script) THEN cat
  ELSE RunScript(ExecCreateTable(cat, Script[i]).catalog, i + 1)

EmptyCatalog == [t \in TableNames |-> NoTable]
InstalledCatalog == RunScript(EmptyCatalog, 1)

(***************************************************************************)
(* Constraint enforcement on DML, read from the catalog.                   *)
(***************************************************************************)
SameKey(pk, r1, r2) == \A i \in 1..Len(pk) : r1[pk[i]] = r2[pk[i]]

\* whether table def accepts row beside rows: its checks, its primary key
\* and its foreign keys (every one references players.player_id)
Accepts(def, rows, row) ==
  /\ def.exists
  /\ \A c \in def.checks : row[c.col] >= c.lo /\ row[c.col] <= c.hi
  /\ \A r \in rows : ~SameKey(def.pk, r, row)
  /\ \A fk \in def.fks : \E p \in players : p.player_id = row[fk.col]

\* What deleting players.player_id = id does to the rows of a referencing
\* table: "on delete cascade" deletes them, "no action" refuses the delete
\* while any exists.
OnDeleteParent(def, rows, id) ==
  LET refs == {r \in rows : \E fk \in def.fks :
                              fk.ref = "players" /\ r[fk.col] = id}
  IN IF \A fk \in def.fks : fk.ref = "players" => fk.onDelete = "cascade"
     THEN [ok |-> TRUE, rows |-> rows \ refs, removed |-> Cardinality(refs)]
     ELSE [ok |-> refs = {}, rows |-> rows, removed |-> 0]

SqlNull == [null |-> TRUE]
Val(x) == [null |-> FALSE, v |-> x]

(***************************************************************************)
(* SpecSchedule: schema.sql executed statement by statement on an empty    *)
(* database, re-run, with DML on schedule in between.                      *)
(***************************************************************************)
MaxScriptRuns == 2

Teams == {"NYJ", "BUF"}
TestWeeks == {WeekLo - 1, WeekLo, WeekHi, WeekHi + 1}
ScheduleRows ==
  [season : {2025}, week : TestWeeks, team : Teams, opp : Teams, home : {TRUE}]

EmptyTables ==
  /\ schedule = {}
  /\ players = {}
  /\ news = {}
  /\ rosters = {}
  /\ waiver_suggestions = {}
  /\ model_runs = {}
  /\ odds = {}

IdleHttp ==
  /\ env = Undefined
  /\ req = NoRequest
  /\ resp = NoResponse
  /\ steps = <<>>
  /\ bodyUsed = FALSE

InitSchedule ==
  /\ IdleHttp
  /\ catalog = EmptyCatalog
  /\ scriptPc = 0
  /\ scriptRuns = 0
  /\ EmptyTables
  /\ lastOp = [op |-> "none", ok |-> TRUE]

\* the next statement of the script; a failing statement aborts the run
ExecStatement ==
  /\ scriptPc < Len(Script)
  /\ LET r == ExecCreateTable(catalog, Script[scriptPc + 1])
     IN /\ catalog' = r.catalog
        /\ scriptPc' = IF r.ok THEN scriptPc + 1 ELSE Len(Script)
        /\ scriptRuns' = IF r.ok /\ scriptPc + 1 = Len(Script)
                         THEN scriptRuns + 1 ELSE scriptRuns
        /\ lastOp' = [op |-> "ddl", ok |-> r.ok]
  /\ UNCHANGED <<schedule, players, news, rosters, waiver_suggestions,
                 model_runs, odds>>
  /\ UNCHANGED httpVars

\* the script is run again
RerunScript ==
  /\ scriptPc = Len(Script)
  /\ scriptRuns < MaxScriptRuns
  /\ scriptPc' = 0
  /\ UNCHANGED <<catalog, scriptRuns, schedule, players, news, rosters,
                 waiver_suggestions, model_runs, odds, lastOp>>
  /\ UNCHANGED httpVars

OnlySchedule ==
  /\ UNCHANGED <<catalog, scriptPc, scriptRuns, players, news, rosters,
                 waiver_suggestions, model_runs, odds>>
  /\ UNCHANGED httpVars

\* insert into schedule values (row)
InsertSchedule ==
  \E row \in ScheduleRows :
    /\ catalog["schedule"].exists
    /\ LET ok == Accepts(catalog["schedule"], schedule, row)
       IN /\ schedule' = IF ok THEN schedule \cup {row} ELSE schedule
          /\ lastOp' = [op |-> "insert schedule", ok |-> ok]
    /\ OnlySchedule

\* update schedule set week = w where (season, week, team) = key of old
UpdateScheduleWeek ==
  \E old \in schedule, w \in TestWeeks :
    /\ w # old.week
    /\ LET row == [old EXCEPT !.week = w]
           ok == Accepts(catalog["schedule"], schedule \ {old}, row)
       IN /\ schedule' = IF ok THEN (schedule \ {old}) \cup {row} ELSE schedule
          /\ lastOp' = [op |-> "update schedule", ok |-> ok]
    /\ OnlySchedule

\* delete from schedule where (season, week, team) = key of old
DeleteSchedule ==
  \E old \in schedule :
    /\ schedule' = schedule \ {old}
    /\ lastOp' = [op |-> "delete schedule", ok |-> TRUE]
    /\ OnlySchedule

NextSchedule ==
  ExecStatement \/ RerunScript \/ InsertSchedule \/ UpdateScheduleWeek
  \/ DeleteSchedule

SpecSchedule == InitSchedule /\ [][NextSchedule]_vars

(***************************************************************************)
(* SpecPlayers: DML on players and the three tables that reference it, in  *)
(* the database the script leaves.                                         *)
(***************************************************************************)
MaxTs == 2

PlayerIds == {"p1", "p2"}
PlayerRow(id) == [player_id |-> id, position |-> "WR", name |-> id]
NewsRows == [player_id : PlayerIds, ts : 1..MaxTs, headline : {"h"}]
RosterRows ==
  [league_id : {"L"}, user_id : {"u"}, player_id : PlayerIds, slot : {"BN"},
   season : {2025}, week : {WeekLo}]
WaiverRows ==
  [league_id : {"L"}, season : {2025}, week : {WeekLo}, player_id : PlayerIds,
   evor : {1}]

InitInstalled ==
  /\ IdleHttp
  /\ catalog = InstalledCatalog
  /\ scriptPc = Len(Script)
  /\ scriptRuns = 1
  /\ EmptyTables
  /\ lastOp = [op |-> "none", ok |-> TRUE]

Frame(changed) ==
  /\ UNCHANGED <<catalog, scriptPc, scriptRuns, schedule, model_runs>>
  /\ UNCHANGED httpVars
  /\ "players" \in changed \/ UNCHANGED players
  /\ "news" \in changed \/ UNCHANGED news
  /\ "rosters" \in changed \/ UNCHANGED rosters
  /\ "waiver_suggestions" \in changed \/ UNCHANGED waiver_suggestions
  /\ "odds" \in changed \/ UNCHANGED odds

\* insert into players values (PlayerRow(id))
InsertPlayer ==
  \E id \in PlayerIds :
    LET ok == Accepts(catalog["players"], players, PlayerRow(id))
    IN /\ players' = IF ok THEN players \cup {PlayerRow(id)} ELSE players
       /\ lastOp' = [op |-> "insert players", ok |-> ok]
       /\ Frame({"players"})

\* delete from players where player_id = id
DeletePlayer ==
  \E id \in PlayerIds :
    LET n == OnDeleteParent(catalog["news"], news, id)
        r == OnDeleteParent(catalog["rosters"], rosters, id)
        w == OnDeleteParent(catalog["waiver_suggestions"], waiver_suggestions, id)
        ok == n.ok /\ r.ok /\ w.ok
    IN /\ players' = IF ok THEN {p \in players : p.player_id # id} ELSE players
       /\ news' = IF ok THEN n.rows ELSE news
       /\ rosters' = IF ok THEN r.rows ELSE rosters
       /\ waiver_suggestions' = IF ok THEN w.rows ELSE waiver_suggestions
       /\ lastOp' = [op |-> "delete players", ok |-> ok, id |-> id,
                     removed |-> IF ok THEN n.removed + r.removed + w.removed
                                 ELSE 0]
       /\ Frame({"players", "news", "rosters", "waiver_suggestions"})

\* update players set player_id = new where player_id = old: the foreign
\* keys carry no "on update" clause, so a referenced key cannot change
UpdatePlayerId ==
  \E old \in players, new \in PlayerIds :
    LET referenced ==
          \E r \in news \cup rosters \cup waiver_suggestions :
            r.player_id = old.player_id
        row == [old EXCEPT !.player_id = new]
        ok == /\ ~referenced
              /\ Accepts(catalog["players"], players \ {old}, row)
    IN /\ new # old.player_id
       /\ players' = IF ok THEN (players \ {old}) \cup {row} ELSE players
       /\ lastOp' = [op |-> "update players", ok |-> ok]
       /\ Frame({"players"})

\* insert into news values (row)
InsertNews ==
  \E row \in NewsRows :
    LET ok == Accepts(catalog["news"], news, row)
    IN /\ news' = IF ok THEN news \cup {row} ELSE news
       /\ lastOp' = [op |-> "insert news", ok |-> ok]
       /\ Frame({"news"})

\* update news set player_id = id where (player_id, ts) = key of old
UpdateNewsPlayer ==
  \E old \in news, id \in PlayerIds :
    LET row == [old EXCEPT !.player_id = id]
        ok == Accepts(catalog["news"], news \ {old}, row)
    IN /\ id # old.player_id
       /\ news' = IF ok THEN (news \ {old}) \cup {row} ELSE news
       /\ lastOp' = [op |-> "update news", ok |-> ok]
       /\ Frame({"news"})

\* delete from news where (player_id, ts) = key of old
DeleteNews ==
  \E old \in news :
    /\ news' = news \ {old}
    /\ lastOp' = [op |-> "delete news", ok |-> TRUE]
    /\ Frame({"news"})

\* insert into rosters values (row)
InsertRoster ==
  \E row \in RosterRows :
    LET ok == Accepts(catalog["rosters"], rosters, row)
    IN /\ rosters' = IF ok THEN rosters \cup {row} ELSE rosters
       /\ lastOp' = [op |-> "insert rosters", ok |-> ok]
       /\ Frame({"rosters"})

\* insert into waiver_suggestions values (row)
InsertWaiverSuggestion ==
  \E row \in WaiverRows :
    LET ok == Accepts(catalog["waiver_suggestions"], waiver_suggestions, row)
    IN /\ waiver_suggestions' =
            IF ok THEN waiver_suggestions \cup {row} ELSE waiver_suggestions
       /\ lastOp' = [op |-> "insert waiver_suggestions", ok |-> ok]
       /\ Frame({"waiver_suggestions"})

NextPlayers ==
  InsertPlayer \/ DeletePlayer \/ UpdatePlayerId \/ InsertNews
  \/ UpdateNewsPlayer \/ DeleteNews \/ InsertRoster \/ InsertWaiverSuggestion

SpecPlayers == InitInstalled /\ [][NextPlayers]_vars

SpecHttp == InitHttp /\ [][NextHttp]_vars

(***************************************************************************)
(* SpecRuns: DML on model_runs.  The table constrains run_id (primary key) *)
(* and the not-null columns only: status is any text, ended_at any         *)
(* timestamp or null.                                                      *)
(***************************************************************************)
MaxRunRows == 2
MaxEndedAt == 1

RunIds == 1..MaxRunRows
StatusTexts == {"started", "success", "failed", "queued"}
EndedAtValues == {SqlNull} \cup {Val(t) : t \in 1..MaxEndedAt}
ModelRunRow(id, status, ended) ==
  [run_id |-> id, stage |-> "train", status |-> status, ended_at |-> ended]

OnlyModelRuns ==
  /\ UNCHANGED <<catalog, scriptPc, scriptRuns, schedule, players, news,
                 rosters, waiver_suggestions, odds>>
  /\ UNCHANGED httpVars

\* insert into model_runs (stage, status, ended_at) values (...): run_id
\* defaults to a fresh gen_random_uuid(); status defaults to 'started' and
\* ended_at to null when the statement names neither
InsertModelRun ==
  \E id \in RunIds, status \in StatusTexts, ended \in EndedAtValues :
    /\ \A r \in model_runs : r.run_id # id
    /\ LET row == ModelRunRow(id, status, ended)
           ok == Accepts(catalog["model_runs"], model_runs, row)
       IN /\ model_runs' = IF ok THEN model_runs \cup {row} ELSE model_runs
          /\ lastOp' = [op |-> "insert model_runs", ok |-> ok]
    /\ OnlyModelRuns

\* update model_runs set status = ..., ended_at = ... where run_id = ...
UpdateModelRun ==
  \E old \in model_runs, status \in StatusTexts, ended \in EndedAtValues :
    /\ LET row == [old EXCEPT !.status = status, !.ended_at = ended]
           ok == Accepts(catalog["model_runs"], model_runs \ {old}, row)
       IN /\ row # old
          /\ model_runs' = IF ok THEN (model_runs \ {old}) \cup {row}
                           ELSE model_runs
          /\ lastOp' = [op |-> "update model_runs", ok |-> ok]
    /\ OnlyModelRuns

\* delete from model_runs where run_id = ...
DeleteModelRun ==
  \E old \in model_runs :
    /\ model_runs' = model_runs \ {old}
    /\ lastOp' = [op |-> "delete model_runs", ok |-> TRUE]
    /\ OnlyModelRuns

NextRuns == InsertModelRun \/ UpdateModelRun \/ DeleteModelRun

SpecRuns == InitInstalled /\ [][NextRuns]_vars

(***************************************************************************)
(* SpecOdds: DML on odds and reads of the view odds_implied.               *)
(***************************************************************************)
\* the least int4
IntMin == -2147483647 - 1

RECURSIVE Gcd(_, _)
Gcd(a, b) == IF b = 0 THEN a ELSE Gcd(b, a % b)

\* the numeric quotient n / d (n >= 0, d > 0), kept as a fraction in lowest
\* terms; the rounding of numeric division to its result scale is not kept
NumericDiv(n, d) ==
  [null |-> FALSE, num |-> n \div Gcd(n, d), den |-> d \div Gcd(n, d)]

\* int4 unary minus: the negation of the least int4 is out of range
Int4Um(x) == IF x = IntMin THEN [err |-> TRUE, v |-> 0] ELSE [err |-> FALSE, v |-> -x]

\* the case expression of the view, lines 158-162: moneyline is an int4,
\* 100.0 a numeric; an int4 operand of + or / with a numeric is cast to
\* numeric, the operand of unary minus is not
ImpliedWinProb(moneyline) ==
  IF moneyline.null THEN [err |-> FALSE, value |-> SqlNull]
  ELSE IF moneyline.v > 0
  THEN [err |-> FALSE, value |-> NumericDiv(100, moneyline.v + 100)]
  ELSE LET neg == Int4Um(moneyline.v)
       IN IF neg.err THEN [err |-> TRUE, value |-> SqlNull]
          ELSE [err |-> FALSE, value |-> NumericDiv(neg.v, neg.v + 100)]

\* select * from odds_implied: a row per odds row; an error in any row's
\* expression fails the statement ("integer out of range")
OddsImplied(rows) ==
  IF \E r \in rows : ImpliedWinProb(r.moneyline).err
  THEN [ok |-> FALSE, rows |-> {}]
  ELSE [ok |-> TRUE,
        rows |-> {[season |-> r.season, week |-> r.week, game_id |-> r.game_id,
                   team |-> r.team, moneyline |-> r.moneyline,
                   implied_win_prob |-> ImpliedWinProb(r.moneyline).value] :
                  r \in rows}]

MoneylineValues ==
  {SqlNull} \cup {Val(m) : m \in {IntMin, -150, -110, 0, 100, 150, 200}}
OddsRows ==
  [season : {2025}, week : {WeekLo}, game_id : {"g1"}, team : Teams,
   moneyline : MoneylineValues]

OnlyOdds ==
  /\ UNCHANGED <<catalog, scriptPc, scriptRuns, schedule, players, news,
                 rosters, waiver_suggestions, model_runs>>
  /\ UNCHANGED httpVars

\* insert into odds values (row)
InsertOdds ==
  \E row \in OddsRows :
    LET ok == Accepts(catalog["odds"], odds, row)
    IN /\ odds' = IF ok THEN odds \cup {row} ELSE odds
       /\ lastOp' = [op |-> "insert odds", ok |-> ok]
       /\ OnlyOdds

\* update odds set moneyline = m where key = key of old
UpdateOddsMoneyline ==
  \E old \in odds, m \in MoneylineValues :
    /\ m # old.moneyline
    /\ odds' = (odds \ {old}) \cup {[old EXCEPT !.moneyline = m]}
    /\ lastOp' = [op |-> "update odds", ok |-> TRUE]
    /\ OnlyOdds

\* delete from odds where key = key of old
DeleteOdds ==
  \E old \in odds :
    /\ odds' = odds \ {old}
    /\ lastOp' = [op |-> "delete odds", ok |-> TRUE]
    /\ OnlyOdds

\* select * from odds_implied
SelectOddsImplied ==
  /\ lastOp' = [op |-> "select odds_implied", ok |-> OddsImplied(odds).ok,
                rows |-> OddsImplied(odds).rows, read |-> odds]
  /\ UNCHANGED odds
  /\ OnlyOdds

NextOdds == InsertOdds \/ UpdateOddsMoneyline \/ DeleteOdds \/ SelectOddsImplied

SpecOdds == InitInstalled /\ [][NextOdds]_vars

(***************************************************************************)
(* The claims.                                                             *)
(***************************************************************************)
TokenHeader == "x-trigger-token"
Unauthorized401 == Response(401, Str("Unauthorized"))
Acknowledged == Response(200, Obj(<<Member("ok", Bool(TRUE))>>))
SeasonWeekRoutes == {"trigger-weekly", "waivers/scan"}

\* the request carries no x-trigger-token, or one that is not the secret
MissingOrWrongToken(r) ==
  ~\E h \in r.headers : h.name = TokenHeader /\ Str(h.value) = env

\* the request carries the configured (non-empty) secret
CorrectToken(r) ==
  \E h \in r.headers :
    h.name = TokenHeader /\ h.value # "" /\ Str(h.value) = env

\* the member named k of an object text, Undefined when it has none
DocGet(doc, k) ==
  IF doc.t = "obj" /\ \E i \in 1..Len(doc.members) : doc.members[i].k = k
  THEN doc.members[CHOOSE i \in 1..Len(doc.members) :
                     /\ doc.members[i].k = k
                     /\ \A j \in (i + 1)..Len(doc.members) : doc.members[j].k # k].v
  ELSE Undefined

Served == req # NoRequest

\* C1: a request to any of the three endpoints whose x-trigger-token is
\* missing or differs from the configured secret is answered 401
\* 'Unauthorized', and the handler executed nothing but the gate: the body
\* was not read and no later statement ran.
C1_GateStopsUnauthorized ==
  (Served /\ MissingOrWrongToken(req)) =>
    /\ resp = Unauthorized401
    /\ steps = <<"requireTriggerToken">>
    /\ bodyUsed = FALSE

C1_Witness ==
  /\ Served
  /\ req.route = "waivers/scan"
  /\ env = Str("s3cret")
  /\ [name |-> TokenHeader, value |-> "wrong"] \in req.headers
  /\ req.body.kind = "json"
  /\ resp = Unauthorized401

\* C2: with TRIGGER_TOKEN unset or empty, requireTriggerToken returns the
\* 401 response for every header value (absent, empty, any string), never
\* null; so every request served is answered 401.
C2_UnsetSecretAuthorizesNone ==
  (env = Undefined \/ env = Str("")) =>
    /\ \A h \in HeaderSets : requireTriggerToken(h) = Unauthorized401
    /\ Served => resp = Unauthorized401

C2_Witness ==
  /\ Served
  /\ env = Str("")
  /\ [name |-> TokenHeader, value |-> ""] \in req.headers
  /\ resp = Unauthorized401

\* C3: trigger-weekly and waivers/scan, given the correct token and an
\* absent or unparseable body, answer 200 with ok true and neither season
\* nor week; the parse failure is not surfaced.
C3_MalformedBodyAcknowledged ==
  (/\ Served
   /\ req.route \in SeasonWeekRoutes
   /\ CorrectToken(req)
   /\ req.body.kind \in {"absent", "malformed"}) =>
    /\ resp = Acknowledged
    /\ DocGet(resp.body, "season") = Undefined
    /\ DocGet(resp.body, "week") = Undefined

C3_Witness ==
  /\ Served
  /\ req.route = "trigger-weekly"
  /\ CorrectToken(req)
  /\ req.body.kind = "malformed"
  /\ resp.kind = "response"
  /\ resp.status = 200

\* the request is a season/week request with the correct token whose body
\* is a JSON object with both a season and a week member
CarriesSeasonWeek ==
  /\ Served
  /\ req.route \in SeasonWeekRoutes
  /\ CorrectToken(req)
  /\ req.body.kind = "json"
  /\ req.body.doc.t = "obj"
  /\ DocGet(req.body.doc, "season") # Undefined
  /\ DocGet(req.body.doc, "week") # Undefined

\* the response is 200 {ok: true, season, week} with the request's values
EchoesSeasonWeek ==
  /\ resp.kind = "response"
  /\ resp.status = 200
  /\ resp.body.t = "obj"
  /\ Len(resp.body.members) = 3
  /\ DocGet(resp.body, "ok") = Bool(TRUE)
  /\ MathValue(DocGet(resp.body, "season"))
       = MathValue(DocGet(req.body.doc, "season"))
  /\ MathValue(DocGet(resp.body, "week"))
       = MathValue(DocGet(req.body.doc, "week"))

\* an integer of magnitude at most 2^53, or a value that is not a number
WithinDoublePrecision(x) ==
  x.t = "num" => (x.hi < 2^23 \/ (x.hi = 2^23 /\ x.lo = 0))

C5_RefreshIgnoresBody ==
  (Served /\ req.route = "refresh-week" /\ CorrectToken(req)) =>
    /\ resp = Acknowledged
    /\ bodyUsed = FALSE
    /\ steps = <<"requireTriggerToken", "respond">>

C5_Witness ==
  /\ Served
  /\ req.route = "refresh-week"
  /\ CorrectToken(req)
  /\ req.body.kind = "json"
  /\ DocGet(req.body.doc, "season") = Small(2025)
  /\ resp = Acknowledged

\* C10 (as claimed): trigger-weekly and waivers/scan, given the correct
\* token, complete with a 200 response whatever the body is and never
\* throw; a JSON body that is not an object yields neither season nor week.
C10_NeverThrows ==
  (Served /\ req.route \in SeasonWeekRoutes /\ CorrectToken(req)) =>
    /\ resp.kind = "response"
    /\ resp.status = 200
    /\ (req.body.kind = "json" /\ req.body.doc.t # "obj") => resp = Acknowledged

\* the rows of the three tables that reference players
ReferencingRows == news \cup rosters \cup waiver_suggestions

\* C7: deleting a player removes every news, rosters and
\* waiver_suggestions row that references it (the delete is never refused),
\* and after any sequence of inserts, updates and deletes every row of
\* those tables references a player that exists.
C7_CascadeKeepsReferences ==
  /\ \A r \in ReferencingRows : \E p \in players : p.player_id = r.player_id
  /\ lastOp.op = "delete players" =>
       /\ lastOp.ok
       /\ \A p \in players : p.player_id # lastOp.id
       /\ \A r \in ReferencingRows : r.player_id # lastOp.id

C7_Witness ==
  /\ lastOp.op = "delete players"
  /\ lastOp.ok
  /\ lastOp.removed >= 3
  /\ players # {}
  /\ ReferencingRows # {}

\* C8 (as claimed): in every reachable state of model_runs no row has
\* status 'started' together with a non-null ended_at.
C8_NoStartedWithEndedAt ==
  \A r \in model_runs : ~(r.status = "started" /\ ~r.ended_at.null)

\* C9: while and after schema.sql runs, once or again, and after any DML,
\* schedule holds at most one row per (season, week, team) and every stored
\* week is in [1,23]; no statement of the script fails, and the table keeps
\* its check on week.
C9_ScheduleKeyAndWeek ==
  /\ \A r1 \in schedule, r2 \in schedule :
       (r1.season = r2.season /\ r1.week = r2.week /\ r1.team = r2.team)
         => r1 = r2
  /\ \A r \in schedule : r.week >= 1 /\ r.week <= 23
  /\ lastOp.op = "ddl" => lastOp.ok
  /\ catalog["schedule"].exists =>
       [col |-> "week", lo |-> 1, hi |-> 23] \in catalog["schedule"].checks

C9_Witness ==
  /\ scriptRuns = 2
  /\ schedule # {}
  /\ lastOp = [op |-> "insert schedule", ok |-> FALSE]

\* the probability the specification gives for a moneyline, as a fraction
ClaimedProb(m) ==
  IF m.v > 0 THEN [num |-> 100, den |-> m.v + 100]
  ELSE [num |-> -m.v, den |-> (-m.v) + 100]

\* value v of the view is the probability claimed for moneyline m
IsClaimedProb(v, m) ==
  IF m.null THEN v = SqlNull
  ELSE /\ ~v.null
       /\ v.num * ClaimedProb(m).den = ClaimedProb(m).num * v.den

\* C6 (as claimed): a read of odds_implied yields, for every odds row,
\* implied_win_prob null for a null moneyline, 100 / (moneyline + 100) for
\* a positive one and (-moneyline) / ((-moneyline) + 100) otherwise.
C6_ViewYieldsClaimedProb ==
  lastOp.op = "select odds_implied" =>
    /\ lastOp.ok
    /\ \A r \in lastOp.read :
         \E v \in lastOp.rows :
           /\ v.game_id = r.game_id /\ v.team = r.team
           /\ IsClaimedProb(v.implied_win_prob, r.moneyline)

\* What the view does satisfy: the claimed values whenever no row read
\* holds the least int4 as its moneyline.
C6_HoldsAboveIntMin ==
  (/\ lastOp.op = "select odds_implied"
   /\ \A r \in lastOp.read : r.moneyline # Val(IntMin)) =>
    /\ lastOp.ok
    /\ \A r \in lastOp.read :
         \E v \in lastOp.rows :
           /\ v.game_id = r.game_id /\ v.team = r.team
           /\ IsClaimedProb(v.implied_win_prob, r.moneyline)

====
